---- MODULE Spec2Model ----
(***************************************************************************)
(* Model of src/app/page.tsx: the Portfolio page (data load, scroll-driven *)
(* active-section tracker, featured/other project partition) and its       *)
(* AnimatedCounter child (viewport-triggered interval ramp).               *)
(***************************************************************************)
EXTENDS Integers, Naturals, Sequences, FiniteSets, TLC

(***************************************************************************)
(* JavaScript numbers.  `start`, `end` and `increment` are IEEE-754        *)
(* doubles.  Every value the counter computes is a non-negative multiple   *)
(* of the unit in the last place of `increment`, so a number is kept as    *)
(* the integer count N of that unit, N = hi * 2^30 + lo, and the unit is   *)
(* 2^(-Scale(end)).  An operation computes the exact result and rounds it  *)
(* to 53 significant bits, ties to even, as the hardware does.             *)
(***************************************************************************)
Limb == 2 ^ 30

\* 53 significant bits = one full low limb (30) + 23 bits of the high limb
HiBits == 53 - 30

RECURSIVE BitLen(_)
BitLen(k) == IF k = 0 THEN 0 ELSE 1 + BitLen(k \div 2)

\* the double N * 2^-n, N = h * 2^30 + l, after the carry of the low limb
Norm(h, l, n) == [hi |-> h + (l \div Limb), lo |-> l % Limb, n |-> n]

\* the number 0 in units of 2^-n (line 80, let start = 0)
Zero(n) == [hi |-> 0, lo |-> 0, n |-> n]

\* variant: the sum is truncated to 53 bits instead of rounded to nearest
RoundDoubleTruncating(a) ==
    LET k == BitLen(a.hi) - HiBits
    IN  IF k <= 0 THEN a
        ELSE [hi |-> a.hi, lo |-> a.lo - (a.lo % (2 ^ k)), n |-> a.n]

\* round-to-nearest, ties-to-even, to 53 significant bits
RoundDouble(a) ==
    LET k == BitLen(a.hi) - HiBits
    IN  IF k <= 0 THEN a
        ELSE LET p    == 2 ^ k
                 r    == a.lo % p
                 half == p \div 2
                 down == a.lo - r
                 up   == r > half \/ (r = half /\ (a.lo \div p) % 2 = 1)
             IN  IF up THEN Norm(a.hi, down + p, a.n)
                 ELSE [hi |-> a.hi, lo |-> down, n |-> a.n]

\* a + b on doubles of the same unit (line 86, start += increment)
FAdd(a, b) == RoundDouble(Norm(a.hi + b.hi, a.lo + b.lo, b.n))

\* variant: the comparison is strict, start > end
FGt(a, b) == a.hi > b.hi \/ (a.hi = b.hi /\ a.lo > b.lo)

\* a >= b on doubles of the same unit (line 87, start >= end)
FGeq(a, b) == a.hi > b.hi \/ (a.hi = b.hi /\ a.lo >= b.lo)

\* One step of the binary long division by d: the quotient q gains one
\* fraction bit, r is the remainder.
DivStep(s, d) ==
    LET r2  == 2 * s.r
        bit == IF r2 >= d THEN 1 ELSE 0
    IN  [q |-> Norm(2 * s.q.hi, 2 * s.q.lo + bit, s.q.n + 1), r |-> r2 - bit * d]

\* divide until the quotient has 53 significant bits
RECURSIVE DivLoop(_, _)
DivLoop(s, d) ==
    IF BitLen(s.q.hi) >= HiBits THEN s ELSE DivLoop(DivStep(s, d), d)

\* e / d on doubles for integers e >= 0, d > 0 (line 83): the quotient
\* truncated to 53 bits, then rounded to nearest by the remainder
FDiv(e, d) ==
    IF e = 0 THEN Zero(30)
    ELSE LET s == DivLoop([q |-> Norm(0, e \div d, 0), r |-> e % d], d)
         IN  IF 2 * s.r > d \/ (2 * s.r = d /\ s.q.lo % 2 = 1)
             THEN Norm(s.q.hi, s.q.lo + 1, s.q.n)
             ELSE s.q

\* the integer e as a double in units of 2^-n, n >= 30 (line 81, end = value)
FromInt(e, n) == [hi |-> e * 2 ^ (n - 30), lo |-> 0, n |-> n]

\* Math.floor of a double in units of 2^-n, n >= 30 (line 91)
Floor(a) == a.hi \div 2 ^ (a.n - 30)

(***************************************************************************)
(* Bounds of the model.                                                    *)
(***************************************************************************)
\* the counter's `value` prop ranges over 0..MaxTarget in SpecCounter
MaxTarget == 26

\* scroll offsets are 0, 50, ..., MaxScrollSteps * 50
MaxScrollSteps == 12

\* project lists hold at most MaxProjects projects, ids in 1..MaxProjects
MaxProjects == 3

ScrollYs == {50 * i : i \in 0..MaxScrollSteps}

\* layouts: offsetTop of the first section, space between two sections,
\* offsetHeight of a section
HomeTops == {0, 150}

Gaps == {0, 50}

SectionHeights == {50, 100}

(***************************************************************************)
(* Program constants.                                                      *)
(***************************************************************************)
\* line 215
sections == <<"home", "about", "projects", "contact">>

\* line 216: window.scrollY + 100
Lookahead == 100

\* line 82
duration == 2000

\* lines 83 and 93: the literal 16
Interval == 16

\* line 416: <AnimatedCounter value={10} />
PageCounterValue == 10

\* line 83: duration / 16, an exact quotient
Steps == duration \div Interval

\* line 203: useState<PortfolioData | null>(null)
Null == [loaded |-> FALSE, projects |-> <<>>]

VARIABLES
    mounted,        \* the Portfolio view exists
    load,           \* the import() promise of line 208: idle, pending, resolved, rejected
    json,           \* projects of @/data/portfolio.json
    data,           \* useState of line 203
    activeSection,  \* useState of line 205
    listeners,      \* handleScroll listeners installed on window
    scrollY,        \* window.scrollY
    layout,         \* offsetTop / offsetHeight of each section element
    lastScan,       \* outcome of the latest scroll event: none, set, kept, off
    value,          \* the counter's value prop
    count,          \* useState of line 74
    isInView,       \* useInView of line 76
    visible,        \* the counter's span intersects the viewport
    timer,          \* live setInterval timers of the counter
    start,          \* closure variable of line 80
    increment,      \* closure constant of line 83
    samples,        \* timer callbacks run since the effect started
    playbacks       \* runs of the effect body of lines 80-95 since mount

pageVars == <<mounted, load, json, data>>
scrollVars == <<activeSection, listeners, scrollY, layout, lastScan>>
counterVars == <<value, count, isInView, visible, timer, start, increment, samples, playbacks>>
vars == <<mounted, load, json, data, activeSection, listeners, scrollY, layout,
          lastScan, value, count, isInView, visible, timer, start, increment,
          samples, playbacks>>

(***************************************************************************)
(* Layout of the four sections: normal-flow blocks in document order.      *)
(***************************************************************************)
RECURSIVE TopOf(_, _, _, _)
TopOf(i, homeTop, gap, h) ==
    IF i = 1 THEN homeTop ELSE TopOf(i - 1, homeTop, gap, h) + h[i - 1] + gap

MakeLayout(homeTop, gap, h) ==
    [i \in 1..Len(sections) |->
        [offsetTop |-> TopOf(i, homeTop, gap, h), offsetHeight |-> h[i]]]

Layouts ==
    {MakeLayout(t, g, h) : t \in HomeTops, g \in Gaps,
                           h \in [1..Len(sections) -> SectionHeights]}

\* the layouts of equal sections with no space between them
PageLayouts ==
    {MakeLayout(t, 0, [i \in 1..Len(sections) |-> h]) : t \in HomeTops, h \in SectionHeights}

\* the section elements exist once the loaded page has rendered (line 236)
SectionsRendered == mounted /\ data.loaded

\* the AnimatedCounter of line 416 exists once the loaded page has rendered
CounterMounted == mounted /\ data.loaded

(***************************************************************************)
(* Active-section tracker, lines 214-230.                                  *)
(***************************************************************************)
\* line 224
InRange(scrollPosition, element) ==
    /\ scrollPosition >= element.offsetTop
    /\ scrollPosition < element.offsetTop + element.offsetHeight

\* lines 218-229: the loop from section i on; rendered = getElementById finds
\* the elements; yields the index of the section passed to setActiveSection,
\* 0 when the loop ends without a match
RECURSIVE ScanFrom(_, _, _, _)
ScanFrom(i, scrollPosition, lay, rendered) ==
    IF i > Len(sections) THEN 0
    ELSE IF rendered /\ InRange(scrollPosition, lay[i]) THEN i
    ELSE ScanFrom(i + 1, scrollPosition, lay, rendered)

\* variant: the probe is window.scrollY, without the lookahead
handleScrollNoLookahead(active, y, lay, rendered) ==
    LET hit == ScanFrom(1, y, lay, rendered)
    IN  IF hit = 0 THEN active ELSE sections[hit]

\* variant: without a match the active section falls back to the first section
handleScrollResetting(active, y, lay, rendered) ==
    LET hit == ScanFrom(1, y + Lookahead, lay, rendered)
    IN  IF hit = 0 THEN sections[1] ELSE sections[hit]

\* variant: without a match the active section is cleared
handleScrollClearing(active, y, lay, rendered) ==
    LET hit == ScanFrom(1, y + Lookahead, lay, rendered)
    IN  IF hit = 0 THEN "" ELSE sections[hit]

\* lines 214-230: the value of activeSection after handleScroll
handleScroll(active, y, lay, rendered) ==
    LET hit == ScanFrom(1, y + Lookahead, lay, rendered)
    IN  IF hit = 0 THEN active ELSE sections[hit]

\* whether handleScroll called setActiveSection
ScanOutcome(y, lay, rendered) ==
    IF ScanFrom(1, y + Lookahead, lay, rendered) = 0 THEN "kept" ELSE "set"

(***************************************************************************)
(* Project partition, lines 253-254.                                       *)
(***************************************************************************)
IsFeatured(project) == project.featured

\* variant: the second filter repeats the first one's test
IsOtherCopied(project) == project.featured

IsOther(project) == ~project.featured

featuredProjects == SelectSeq(data.projects, IsFeatured)

otherProjects == SelectSeq(data.projects, IsOther)

\* project lists of the data file: up to MaxProjects projects
ProjectLists ==
    UNION {[1..n -> [id : 1..MaxProjects, featured : BOOLEAN]] : n \in 0..MaxProjects}

\* the example list of the specification, section 8
ExampleProjects ==
    << [id |-> 1, featured |-> TRUE], [id |-> 2, featured |-> FALSE],
       [id |-> 3, featured |-> TRUE] >>

(***************************************************************************)
(* AnimatedCounter, lines 73-105.                                          *)
(***************************************************************************)
\* variant: useInView(ref) without once, the hook follows the viewport
UseInViewRepeating(was, vis) == vis

\* line 76: useInView(ref, {once: true}); was = the hook's state, vis = the
\* element intersects the viewport
UseInView(was, vis) == was \/ vis

\* variant: the step count is the interval, end / 16, duration left out
IncrementPerInterval(end) == FDiv(end, Interval)

\* line 83
Increment(end) == FDiv(end, Steps)

\* variant: the callback never clamps to end and never clears the interval
SampleUnbounded(s, inc, end) ==
    LET s2 == FAdd(s, inc)
    IN  [start |-> s2, count |-> Floor(s2), clear |-> FALSE]

\* lines 86-92: one timer callback
Sample(s, inc, end) ==
    LET s2 == FAdd(s, inc)
    IN  IF FGeq(s2, FromInt(end, inc.n))
        THEN [start |-> s2, count |-> end, clear |-> TRUE]
        ELSE [start |-> s2, count |-> Floor(s2), clear |-> FALSE]

\* variant: the effect returns no cleanup
EffectCleanupMissing(t) == t

\* line 95: the effect's cleanup, clearInterval(timer); t = live timers
EffectCleanup(t) == 0

\* variant: the effect returns no cleanup, the listener stays installed
RemoveListenerMissing(n) == n

\* line 233: removeEventListener; n = installed listeners
RemoveListener(n) == IF n > 0 THEN n - 1 ELSE 0

\* the counter's state at mount (lines 74-76), nothing triggered yet
CounterReset ==
    /\ count' = 0
    /\ isInView' = FALSE
    /\ visible' = FALSE
    /\ start' = Zero(30)
    /\ increment' = Zero(30)
    /\ samples' = 0
    /\ playbacks' = 0

(***************************************************************************)
(* State after the first mount of the page: useState initial values, both  *)
(* effects of Portfolio have run (import() started, listener installed).   *)
(***************************************************************************)
InitWith(values, jsons, lays) ==
    /\ mounted = TRUE
    /\ load = "pending"
    /\ json \in jsons
    /\ data = Null
    /\ activeSection = "home"
    /\ listeners = 1
    /\ scrollY = 0
    /\ layout \in lays
    /\ lastScan = "none"
    /\ value \in values
    /\ count = 0
    /\ isInView = FALSE
    /\ visible = FALSE
    /\ timer = 0
    /\ start = Zero(30)
    /\ increment = Zero(30)
    /\ samples = 0
    /\ playbacks = 0

\* the page as shipped: one counter with value 10
Init == InitWith({PageCounterValue}, {ExampleProjects}, PageLayouts)

(***************************************************************************)
(* Actions.                                                                *)
(***************************************************************************)
\* a new Portfolio instance mounts after the previous one was torn down
Mount ==
    /\ ~mounted
    /\ mounted' = TRUE
    /\ data' = Null
    /\ load' = "pending"
    /\ activeSection' = "home"
    /\ listeners' = listeners + 1
    /\ lastScan' = "none"
    /\ CounterReset
    /\ UNCHANGED <<json, scrollY, layout, value, timer>>

\* the page is torn down: both cleanups run (lines 233 and 95)
Unmount ==
    /\ mounted
    /\ mounted' = FALSE
    /\ listeners' = RemoveListener(listeners)
    /\ timer' = IF isInView THEN EffectCleanup(timer) ELSE timer
    /\ UNCHANGED <<load, json, data, activeSection, scrollY, layout, lastScan,
                   value, count, isInView, visible, start, increment, samples,
                   playbacks>>

\* lines 208-210: the import() promise resolves, setData
LoadData ==
    /\ load = "pending"
    /\ load' = "resolved"
    /\ data' = IF mounted THEN [loaded |-> TRUE, projects |-> json] ELSE data
    /\ UNCHANGED <<mounted, json, scrollVars, counterVars>>

\* variant: a rejection handler renders the page with an empty data set
LoadFailFallback ==
    /\ load = "pending"
    /\ load' = "rejected"
    /\ data' = IF mounted THEN [loaded |-> TRUE, projects |-> <<>>] ELSE data
    /\ UNCHANGED <<mounted, json, scrollVars, counterVars>>

\* the import() promise rejects: no handler, data stays null
LoadFail ==
    /\ load = "pending"
    /\ load' = "rejected"
    /\ UNCHANGED <<mounted, json, data, scrollVars, counterVars>>

\* a scroll event at offset y: every installed listener runs handleScroll
Scroll ==
    \E y \in ScrollYs :
        /\ scrollY' = y
        /\ IF listeners > 0
           THEN /\ activeSection' = handleScroll(activeSection, y, layout, SectionsRendered)
                /\ lastScan' = ScanOutcome(y, layout, SectionsRendered)
           ELSE /\ activeSection' = activeSection
                /\ lastScan' = "off"
        /\ UNCHANGED <<pageVars, listeners, layout, counterVars>>

\* the rendered sections get new rectangles (resize, images loading)
Relayout(lays) ==
    /\ SectionsRendered
    /\ \E l \in lays \ {layout} : layout' = l
    /\ UNCHANGED <<pageVars, activeSection, listeners, scrollY, lastScan, counterVars>>

\* The counter's span enters (v = TRUE) or leaves (v = FALSE) the viewport.
\* When isInView changes, the effect of lines 78-97 re-runs: the cleanup of
\* its previous run, then its body.
ViewportChange(v) ==
    /\ CounterMounted
    /\ visible # v
    /\ visible' = v
    /\ LET inView  == UseInView(isInView, v)
           cleaned == IF isInView THEN EffectCleanup(timer) ELSE timer
       IN  /\ isInView' = inView
           /\ IF inView = isInView
              THEN UNCHANGED <<timer, start, increment, samples, playbacks>>
              ELSE IF inView
                   THEN /\ increment' = Increment(value)
                        /\ start' = Zero(Increment(value).n)
                        /\ timer' = cleaned + 1
                        /\ samples' = 0
                        /\ playbacks' = playbacks + 1
                   ELSE /\ timer' = cleaned
                        /\ UNCHANGED <<start, increment, samples, playbacks>>
    /\ UNCHANGED <<pageVars, scrollVars, value, count>>

EnterViewport == ViewportChange(TRUE)

ExitViewport == ViewportChange(FALSE)

\* lines 85-93: the interval fires
TimerTick ==
    /\ timer > 0
    /\ LET r == Sample(start, increment, value)
       IN  /\ start' = r.start
           /\ count' = IF CounterMounted THEN r.count ELSE count
           /\ timer' = IF r.clear THEN timer - 1 ELSE timer
    /\ samples' = samples + 1
    /\ UNCHANGED <<pageVars, scrollVars, value, isInView, visible, increment, playbacks>>

Next ==
    \/ Mount
    \/ Unmount
    \/ LoadData
    \/ LoadFail
    \/ Scroll
    \/ Relayout(PageLayouts)
    \/ EnterViewport
    \/ ExitViewport
    \/ TimerTick

Spec == Init /\ [][Next]_vars

\* one layout: sections of height 100 from the top of the page
PlainLayout == MakeLayout(0, 0, [i \in 1..Len(sections) |-> 100])

(***************************************************************************)
(* The active-section tracker over every layout: the counter never enters  *)
(* the viewport.                                                           *)
(***************************************************************************)
InitTracker == InitWith({PageCounterValue}, {ExampleProjects}, Layouts)

NextTracker ==
    \/ Mount
    \/ Unmount
    \/ LoadData
    \/ LoadFail
    \/ Scroll
    \/ Relayout(Layouts)

SpecTracker == InitTracker /\ [][NextTracker]_vars

(***************************************************************************)
(* The AnimatedCounter component for any value prop: the page neither      *)
(* scrolls nor changes its layout.                                         *)
(***************************************************************************)
InitCounter == InitWith(0..MaxTarget, {ExampleProjects}, {PlainLayout})

NextCounter ==
    \/ Mount
    \/ Unmount
    \/ LoadData
    \/ LoadFail
    \/ EnterViewport
    \/ ExitViewport
    \/ TimerTick

SpecCounter == InitCounter /\ [][NextCounter]_vars

(***************************************************************************)
(* The project partition for any data file.                                *)
(***************************************************************************)
InitPartition == InitWith({PageCounterValue}, ProjectLists, {PlainLayout})

NextPartition ==
    \/ Mount
    \/ Unmount
    \/ LoadData
    \/ LoadFail

SpecPartition == InitPartition /\ [][NextPartition]_vars

(***************************************************************************)
(* Properties.                                                             *)
(***************************************************************************)
\* the sections whose range [top, top + height) contains y + 100
Containing(y, lay) ==
    {i \in 1..Len(sections) :
        /\ lay[i].offsetTop <= y + 100
        /\ y + 100 < lay[i].offsetTop + lay[i].offsetHeight}

\* the top-most section of a non-empty set of sections
TopMost(S, lay) == CHOOSE i \in S : \A j \in S : lay[i].offsetTop <= lay[j].offsetTop

\* C1: a scroll event on the rendered page whose probe offset + 100 lies in
\* some section's range sets the active section to the top-most section
\* whose range contains the probe.
ActiveSectionDeterminism ==
    [][(Scroll /\ SectionsRendered /\ Containing(scrollY', layout) # {})
        => activeSection' = sections[TopMost(Containing(scrollY', layout), layout)]]_vars

\* a scroll event matched the third section, past the first two
ActiveSectionDeterminismWitness ==
    /\ SectionsRendered
    /\ lastScan = "set"
    /\ activeSection = "projects"
    /\ Containing(scrollY, layout) = {3}

\* C2: a scroll event whose probe lies in no section's range (or with no
\* section element in the document) leaves the active section as it was.
ActiveSectionStickiness ==
    [][(Scroll /\ (~SectionsRendered \/ Containing(scrollY', layout) = {}))
        => activeSection' = activeSection]_vars

\* the latest scroll event ran the handler below the last section and the
\* active section is still the last one
ActiveSectionStickinessWitness ==
    /\ SectionsRendered
    /\ lastScan = "kept"
    /\ activeSection = "contact"
    /\ scrollY + 100 >= layout[4].offsetTop + layout[4].offsetHeight

\* C3: the active section is always one of the four known ids; it is "home"
\* at the start and in a fresh instance, and otherwise only a scroll event
\* handled by the installed listener changes it.
ActiveSectionKnown ==
    /\ activeSection = "home"
    /\ [](activeSection \in {"home", "about", "projects", "contact"})
    /\ [][activeSection' # activeSection
            => \/ Scroll /\ listeners > 0 /\ mounted
               \/ Mount /\ activeSection' = "home"]_vars

\* the handler has moved the active section off the default, and the latest
\* scroll event, with the probe in no section, kept it there
ActiveSectionKnownWitness ==
    /\ SectionsRendered
    /\ lastScan = "kept"
    /\ activeSection = "about"
    /\ Containing(scrollY, layout) = {}

\* C7: exactly one scroll listener is installed while the page is mounted
\* and none after it is torn down; no step changes the active section of a
\* torn-down page.
ScrollListenerLifecycle ==
    /\ [](listeners = IF mounted THEN 1 ELSE 0)
    /\ [][(~mounted /\ ~mounted') => activeSection' = activeSection]_vars

\* a scroll event after teardown found no listener; the active section is
\* the one the page had when it was torn down
ScrollListenerLifecycleWitness ==
    /\ ~mounted
    /\ lastScan = "off"
    /\ listeners = 0
    /\ activeSection = "projects"
    /\ Containing(scrollY, layout) = {1}

\* C4: the displayed value never exceeds the target and never decreases
\* within one instance of the counter.
CounterMonotonicity ==
    /\ [](count <= value)
    /\ [][(mounted \/ ~mounted') => count' >= count]_vars

\* mid-ramp: several samples shown, target not reached
CounterMonotonicityWitness ==
    /\ value = 7
    /\ samples = 60
    /\ count = 3
    /\ timer = 1

\* C5: for target 10 the triggered counter runs its timer until sample 125,
\* displays less than 10 before it, displays exactly 10 at sample 125, and
\* the timer is then cancelled: there is no sample 126.
CounterTermination ==
    (value = 10 /\ playbacks > 0) =>
        /\ samples <= 125
        /\ samples = 125 => (count = 10 /\ timer = 0)
        /\ (samples < 125 /\ mounted) => (count < 10 /\ timer = 1)

\* the counter of target 10 has finished on a mounted page
CounterTerminationWitness ==
    /\ mounted
    /\ value = 10
    /\ samples = 125
    /\ count = 10
    /\ timer = 0

\* C6: the effect body runs at most once per instance, and once the hook has
\* reported the counter in view, a change of visibility leaves the timer,
\* the accumulator and the displayed value as they are.
CounterSingleShot ==
    /\ [](playbacks <= 1)
    /\ [][(mounted /\ isInView /\ visible' # visible)
            => UNCHANGED <<count, start, increment, timer, samples, playbacks>>]_vars

\* the counter left the viewport mid-ramp and its timer is still sampling
CounterSingleShotWitness ==
    /\ mounted
    /\ isInView
    /\ ~visible
    /\ playbacks = 1
    /\ samples = 40
    /\ timer = 1

\* C8: at most one timer is live, none once the page is torn down, and no
\* step changes the displayed value of a torn-down counter.
CounterTimerReleased ==
    /\ [](timer <= 1 /\ (~mounted => timer = 0))
    /\ [][(~mounted /\ ~mounted') => count' = count]_vars

\* torn down mid-ramp: the timer is gone and the value is frozen
CounterTimerReleasedWitness ==
    /\ ~mounted
    /\ isInView
    /\ samples = 50
    /\ count = 4
    /\ timer = 0

\* whether the list all splits, in order, into f (featured) and o (other)
RECURSIVE SplitsInto(_, _, _)
SplitsInto(all, f, o) ==
    IF all = <<>> THEN f = <<>> /\ o = <<>>
    ELSE IF Head(all).featured
         THEN f # <<>> /\ Head(f) = Head(all) /\ SplitsInto(Tail(all), Tail(f), o)
         ELSE o # <<>> /\ Head(o) = Head(all) /\ SplitsInto(Tail(all), f, Tail(o))

SeqRange(q) == {q[i] : i \in 1..Len(q)}

\* C9: featured and other together hold every project and share none;
\* membership follows the featured flag, both keep the input order, and the
\* loaded list is the data file's list.
ProjectPartition ==
    data.loaded =>
        /\ SeqRange(featuredProjects) \cup SeqRange(otherProjects) = SeqRange(data.projects)
        /\ SeqRange(featuredProjects) \cap SeqRange(otherProjects) = {}
        /\ Len(featuredProjects) + Len(otherProjects) = Len(data.projects)
        /\ \A p \in SeqRange(featuredProjects) : p.featured
        /\ \A p \in SeqRange(otherProjects) : ~p.featured
        /\ SplitsInto(data.projects, featuredProjects, otherProjects)
        /\ data.projects = json

\* the example of the specification: featured = [1, 3], other = [2]
ProjectPartitionWitness ==
    /\ data.loaded
    /\ data.projects = ExampleProjects
    /\ featuredProjects = <<ExampleProjects[1], ExampleProjects[3]>>
    /\ otherProjects = <<ExampleProjects[2]>>

\* C10: on the page, whose counter has target 10, sample k displays
\* floor(k * target / 125) and less than the target unless it is the final
\* sample (the accumulator has reached the target), which displays the
\* target and cancels the timer.
CounterRampValues ==
    samples > 0 =>
        IF FGeq(start, FromInt(value, increment.n))
        THEN count = value /\ timer = 0
        ELSE /\ count = (samples * value) \div 125
             /\ value > 0 => count < value

\* sample 25 of the page's counter: 25 * 10 / 125 is the integer 2, the
\* accumulated double has not fallen below it, and the ramp goes on
CounterRampValuesWitness ==
    /\ mounted
    /\ value = 10
    /\ samples = 25
    /\ count = 2
    /\ timer = 1
    /\ ~FGeq(start, FromInt(value, increment.n))

\* C11: for target 0 the increment is 0 / 125 = 0; the triggered counter keeps
\* its timer until the first sample, that sample displays 0 and cancels the
\* timer, and there is no second sample.
CounterZeroTarget ==
    (value = 0 /\ playbacks > 0) =>
        /\ increment.hi = 0 /\ increment.lo = 0
        /\ count = 0
        /\ samples <= 1
        /\ samples = 1 => timer = 0
        /\ (samples = 0 /\ mounted) => timer = 1

\* the counter of target 0 has emitted its one sample on a mounted page
CounterZeroTargetWitness ==
    /\ mounted
    /\ value = 0
    /\ playbacks = 1
    /\ samples = 1
    /\ count = 0
    /\ timer = 0

\* C12: data is null (loading) at the start and otherwise the content of the
\* data file (loaded), with no third state; on a mounted page it is loaded
\* exactly when the import has resolved; within one instance it changes only
\* once, from loading to loaded, when the import resolves; a section is
\* matched and the counter is triggered only on the loaded page; and after a
\* rejected import the instance stays in loading.
DataLoadState ==
    /\ data = Null
    /\ [](data = Null \/ data = [loaded |-> TRUE, projects |-> json])
    /\ [](mounted => (data.loaded <=> load = "resolved"))
    /\ []((lastScan = "set" \/ playbacks > 0) => data.loaded)
    /\ [][data' # data
            => \/ LoadData /\ mounted /\ ~data.loaded /\ data'.loaded
               \/ Mount /\ data' = Null]_vars
    /\ [][(mounted /\ mounted' /\ load = "rejected")
            => (load' = "rejected" /\ ~data'.loaded)]_vars

\* the import resolved on a mounted page: the content is rendered, a scroll
\* event has matched a section and the counter has been triggered
DataLoadStateWitness ==
    /\ mounted
    /\ load = "resolved"
    /\ data = [loaded |-> TRUE, projects |-> json]
    /\ lastScan = "set"
    /\ playbacks = 1

\* the import was rejected: the page is still loading after a scroll event
DataLoadStateRejected ==
    /\ mounted
    /\ load = "rejected"
    /\ data = Null
    /\ lastScan = "kept"
    /\ scrollY > 0

====
